---- MODULE Spec2Model ----
(***************************************************************************)
(* The Ludo server: the room registry (GameManager), the game engine and   *)
(* its turn timer (GameState), and the socket handlers that drive them.    *)
(* One Node.js event loop: every handler and every timer callback runs to  *)
(* completion, so each is one atomic action.                               *)
(***************************************************************************)
EXTENDS Integers, Sequences, FiniteSets, TLC

(***************************************************************************)
(* Input sets.  A socket id is the player id (Player.id = socket.id).      *)
(***************************************************************************)
Sockets == {"s1", "s2"}

RoomIds == {"default"}

\* moveToken's steps comes from the client payload and is not compared with
\* the dice: dice-like values, larger ones and a negative one.
StepValues == {-2, 3, 5, 10, 54}

\* Token ids a client sends: the player's first two tokens, and 0 for an id
\* that none of the player's tokens has.
TokenArgs == {0, 1, 2}

\* Math.floor(Math.random() * 6) + 1 is any of 1..6; the server tells a 6 from
\* the rest and reads nothing else of the value.
DiceValues == {3, 6}

\* What the clients of the whole-server specification send with moveToken.
LobbySteps == {3}

LobbyTokens == {0, 1}

\* Handles the model has for pending timeouts (setTimeout returns a fresh one).
MaxTimers == 2

\* Engine moves the model lets a run make (successful calls of moveToken).
MaxMoves == 2

\* Seats the model lets a run hand out (successful calls of joinRoom).
MaxJoins == 3

(***************************************************************************)
(* Program constants.                                                      *)
(***************************************************************************)
playerColors == <<"red", "green", "blue", "yellow">>

maxPlayers == 4

TOKENS_PER_PLAYER == 4

HOME == -1

PERIMETER_END == 51

FINAL_PATH_START == 52

FINAL_PATH_END == 57

FINAL_POSITION == 57

safePositions == {0, 8, 13, 21, 26, 34, 39, 47}

\* lastDiceRoll and turnTimer are null before the first roll / timer.
NULL == 0

VARIABLES
  rooms,        \* GameManager.rooms: the Map in insertion order, a sequence of GameRoom
  games,        \* GameState.games: roomId -> GameStateData, for the ids that have one
  timers,       \* the event loop's pending timeouts: handle -> gameId
  socketRooms,  \* socket.rooms of each connection, in join order
  closed,       \* connections that have disconnected
  movesLeft,    \* engine moves the run may still make
  joinsLeft,    \* seats the run may still hand out
  last          \* the handler that ran last: its arguments, what it read, its result

vars == <<rooms, games, timers, socketRooms, closed, movesLeft, joinsLeft, last>>

(***************************************************************************)
(* GameManager                                                             *)
(***************************************************************************)
RoomIndex(rm, roomId) ==
  IF \E i \in 1..Len(rm) : rm[i].id = roomId
  THEN CHOOSE i \in 1..Len(rm) : rm[i].id = roomId
  ELSE 0

hasRoom(rm, roomId) == RoomIndex(rm, roomId) # 0

getRoom(rm, roomId) == rm[RoomIndex(rm, roomId)]

getRoomPlayers(rm, roomId) ==
  IF hasRoom(rm, roomId) THEN getRoom(rm, roomId).players ELSE <<>>

IndexOfPlayer(players, id) ==
  IF \E i \in 1..Len(players) : players[i].id = id
  THEN CHOOSE i \in 1..Len(players) :
         players[i].id = id /\ \A j \in 1..(i - 1) : players[j].id # id
  ELSE 0

RemoveAt(seq, i) == SubSeq(seq, 1, i - 1) \o SubSeq(seq, i + 1, Len(seq))

createRoom(rm, roomId) ==
  Append(rm, [id |-> roomId, players |-> <<>>, started |-> FALSE, state |-> "lobby"])

\* The colors offered to a joining player when the taken ones are not left out.
availableColors_IgnoresTakenColors(room) == playerColors

availableColors(room) ==
  SelectSeq(playerColors, LAMBDA c : \A i \in 1..Len(room.players) : room.players[i].color # c)

\* joinRoom returns the new player, or null: here whether it would return one.
canJoinRoom(rm, roomId) ==
  /\ hasRoom(rm, roomId)
  /\ Len(getRoom(rm, roomId).players) < maxPlayers
  /\ availableColors(getRoom(rm, roomId)) # <<>>

joinRoom(rm, socketId, roomId) ==
  LET i == RoomIndex(rm, roomId)
      player == [id |-> socketId, color |-> Head(availableColors(rm[i]))]
  IN  [rm EXCEPT ![i].players = Append(@, player)]

\* The first room, in Map order, that seats the socket loses its first entry for it.
leaveRoom(rm, socketId) ==
  IF \E i \in 1..Len(rm) : IndexOfPlayer(rm[i].players, socketId) # 0
  THEN LET i == CHOOSE k \in 1..Len(rm) :
                  /\ IndexOfPlayer(rm[k].players, socketId) # 0
                  /\ \A j \in 1..(k - 1) : IndexOfPlayer(rm[j].players, socketId) = 0
       IN  [rm EXCEPT ![i].players = RemoveAt(@, IndexOfPlayer(@, socketId))]
  ELSE rm

canStartGame(rm, roomId) ==
  hasRoom(rm, roomId) /\ Len(getRoom(rm, roomId).players) >= 1

startGame(rm, roomId) ==
  IF canStartGame(rm, roomId)
  THEN [rm EXCEPT ![RoomIndex(rm, roomId)].started = TRUE,
                  ![RoomIndex(rm, roomId)].state = "playing"]
  ELSE rm

finishGame(rm, roomId) ==
  IF hasRoom(rm, roomId) THEN [rm EXCEPT ![RoomIndex(rm, roomId)].state = "finished"] ELSE rm

\* isPlayerReady sets the ready flag of the socket's player.  The server writes
\* Player.ready and Player.name and never reads them: a GameRoom of the model
\* holds each player's id and color, and isPlayerReady leaves the registry as it is.
isPlayerReady(rm, socketId, ready) == rm

\* The handler of 'disconnect' calls it; the registry removes the room.
deleteRoom(rm, roomId) ==
  IF hasRoom(rm, roomId) THEN RemoveAt(rm, RoomIndex(rm, roomId)) ELSE rm

(***************************************************************************)
(* GameState: the session store and the engine                             *)
(***************************************************************************)
initialState ==
  [currentPlayer |-> 0, tokens |-> <<>>, lastDiceRoll |-> NULL, canRollAgain |-> FALSE,
   players |-> <<>>, turnTimer |-> NULL, started |-> FALSE]

homeTokens == [i \in 1..TOKENS_PER_PLAYER |-> HOME]

deleteGame(g, roomId) == [r \in DOMAIN g \ {roomId} |-> g[r]]

\* createGame that starts the store over with the one session.
createGame_ResetsTheStore(g, roomId) == [r \in {roomId} |-> initialState]

createGame(g, roomId) ==
  [r \in DOMAIN g \cup {roomId} |-> IF r = roomId THEN initialState ELSE g[r]]

isSeated(game, playerId) == \E i \in 1..Len(game.players) : game.players[i] = playerId

\* addPlayer without the check that the id is already seated.
addPlayer_SeatsAgain(g, roomId, playerId) ==
  IF roomId \notin DOMAIN g THEN g
  ELSE [g EXCEPT ![roomId].players = Append(@, playerId),
                 ![roomId].tokens = IF playerId \in DOMAIN @ THEN @
                                    ELSE [p \in DOMAIN @ \cup {playerId} |->
                                            IF p = playerId THEN homeTokens ELSE @[p]]]

addPlayer(g, roomId, playerId) ==
  IF roomId \notin DOMAIN g \/ isSeated(g[roomId], playerId) THEN g
  ELSE [g EXCEPT ![roomId].players = Append(@, playerId),
                 ![roomId].tokens = IF playerId \in DOMAIN @ THEN @
                                    ELSE [p \in DOMAIN @ \cup {playerId} |->
                                            IF p = playerId THEN homeTokens ELSE @[p]]]

\* Math.random() is a float in [0, 1): here the twelfths of that range.
RandomTwelfths == 0..11

\* Math.floor(Math.random() * 6) + 1 for Math.random() = twelfth / 12.
dieValue(twelfth) == (twelfth * 6) \div 12 + 1

\* rollDice that grants another roll whatever the value.
rollDice_AlwaysRollsAgain(g, roomId, value) ==
  IF roomId \in DOMAIN g
  THEN [g EXCEPT ![roomId].lastDiceRoll = value, ![roomId].canRollAgain = TRUE]
  ELSE g

rollDice(g, roomId, value) ==
  IF roomId \in DOMAIN g
  THEN [g EXCEPT ![roomId].lastDiceRoll = value, ![roomId].canRollAgain = (value = 6)]
  ELSE g

\* isSafePosition that does not count the square tokens enter the board on.
isSafePosition_WithoutTheStart(position) == position \in safePositions \ {0}

isSafePosition(position) == position \in safePositions

\* Object.entries(game.tokens): the keys in insertion order, which is the order of
\* game.players (addPlayer adds both, removePlayer removes both).
tokenEntries(game) == SelectSeq(game.players, LAMBDA p : p \in DOMAIN game.tokens)

\* isCaptured without the safe squares.
isCaptured_OnSafeSquares(game, playerId, enemyId, tokenId, position) ==
  /\ enemyId # playerId
  /\ game.tokens[enemyId][tokenId] = position

\* isCaptured that does not tell the mover's tokens from the others'.
isCaptured_OwnTokensToo(game, playerId, enemyId, tokenId, position) ==
  /\ game.tokens[enemyId][tokenId] = position
  /\ ~isSafePosition(position)

isCaptured(game, playerId, enemyId, tokenId, position) ==
  /\ enemyId # playerId
  /\ game.tokens[enemyId][tokenId] = position
  /\ ~isSafePosition(position)

RECURSIVE capturedList(_, _, _, _)
capturedList(game, playerId, entries, position) ==
  IF entries = <<>> THEN <<>>
  ELSE LET e == Head(entries)
           hit == SelectSeq([i \in 1..Len(game.tokens[e]) |-> i],
                            LAMBDA i : isCaptured(game, playerId, e, i, position))
       IN  [k \in 1..Len(hit) |-> [playerId |-> e, tokenId |-> hit[k]]]
             \o capturedList(game, playerId, Tail(entries), position)

\* checkCaptures that lists the captured tokens and leaves them where they are.
checkCaptures_ListedOnly(game, playerId, position) ==
  IF position < 0 THEN [game |-> game, capturedTokens |-> <<>>]
  ELSE [game |-> game,
        capturedTokens |-> capturedList(game, playerId, tokenEntries(game), position)]

\* Returns the session after the captures and the list of captured tokens.
checkCaptures(game, playerId, position) ==
  IF position < 0 THEN [game |-> game, capturedTokens |-> <<>>]
  ELSE [game |-> [game EXCEPT !.tokens =
                    [e \in DOMAIN @ |->
                       [i \in 1..Len(@[e]) |->
                          IF isCaptured(game, playerId, e, i, position) THEN HOME ELSE @[e][i]]]],
        capturedTokens |-> capturedList(game, playerId, tokenEntries(game), position)]

checkWinCondition_OneToken(game, playerId) ==
  /\ playerId \in DOMAIN game.tokens
  /\ \E i \in 1..Len(game.tokens[playerId]) : game.tokens[playerId][i] = FINAL_POSITION

checkWinCondition(game, playerId) ==
  /\ playerId \in DOMAIN game.tokens
  /\ \A i \in 1..Len(game.tokens[playerId]) : game.tokens[playerId][i] = FINAL_POSITION

noMove ==
  [success |-> FALSE, capturedTokens |-> <<>>, reachedEnd |-> FALSE, hasWon |-> FALSE,
   needsExactRoll |-> FALSE]

\* canLeaveHome that takes the missing roll for a 6.
canLeaveHome_BeforeTheRoll(game) == game.lastDiceRoll \in {NULL, 6}

\* canLeaveHome on any roll.
canLeaveHome_OnAnyRoll(game) == game.lastDiceRoll # NULL

\* A token at home leaves it only on a 6.
canLeaveHome(game) == game.lastDiceRoll = 6

\* resolveOvershoot that bounces a token of the final path as well.
resolveOvershoot_BounceInFinalPath(position, newPosition) ==
  IF newPosition > FINAL_PATH_END /\ newPosition > PERIMETER_END
  THEN LET bounced == FINAL_PATH_END - (newPosition - FINAL_PATH_END)
       IN  [blocked |-> bounced < FINAL_PATH_START, newPosition |-> bounced]
  ELSE [blocked |-> FALSE, newPosition |-> newPosition]

\* The landing cell of a token at `position` that is to reach the raw target
\* `newPosition`: the bounce of a token coming from the perimeter, the exact-roll
\* rule of a token in the final path.  blocked: the move is refused.
resolveOvershoot(position, newPosition) ==
  IF position <= PERIMETER_END /\ newPosition > PERIMETER_END
  THEN IF newPosition > FINAL_PATH_END
       THEN LET excess == newPosition - FINAL_PATH_END
                bounced == FINAL_PATH_END - excess
            IN  IF bounced < FINAL_PATH_START
                THEN [blocked |-> TRUE, newPosition |-> bounced]
                ELSE [blocked |-> FALSE, newPosition |-> bounced]
       ELSE [blocked |-> FALSE, newPosition |-> newPosition]
  ELSE IF position >= FINAL_PATH_START /\ newPosition > FINAL_PATH_END
       THEN [blocked |-> TRUE, newPosition |-> newPosition]
       ELSE [blocked |-> FALSE, newPosition |-> newPosition]

\* capturesApply on every square short of the goal.
capturesApply_InFinalPath(newPosition) == newPosition <= FINAL_PATH_END

\* Captures are looked for on the perimeter only.
capturesApply(newPosition) == newPosition <= PERIMETER_END

\* moveToken that writes the new position before it checks the overshoot.
moveToken_WritesBeforeChecking(g, roomId, playerId, tokenId, steps) ==
  IF roomId \notin DOMAIN g \/ playerId \notin DOMAIN g[roomId].tokens
  THEN [games |-> g, result |-> noMove]
  ELSE
    LET game == g[roomId]
        allTokens == game.tokens[playerId]
    IN
    IF tokenId \notin 1..Len(allTokens) THEN [games |-> g, result |-> noMove]
    ELSE
      LET position == allTokens[tokenId] IN
      IF position = HOME
      THEN IF ~canLeaveHome(game) THEN [games |-> g, result |-> noMove]
           ELSE LET out == checkCaptures([game EXCEPT !.tokens[playerId][tokenId] = 0],
                                         playerId, 0)
                IN  [games |-> [g EXCEPT ![roomId] = out.game],
                     result |-> [noMove EXCEPT !.success = TRUE,
                                               !.capturedTokens = out.capturedTokens]]
      ELSE IF position = FINAL_PATH_END THEN [games |-> g, result |-> noMove]
      ELSE
        LET target == resolveOvershoot(position, position + steps)
            newPosition == target.newPosition
            moved == [game EXCEPT !.tokens[playerId][tokenId] = newPosition]
        IN
        IF target.blocked
        THEN [games |-> [g EXCEPT ![roomId] = moved],
              result |-> [noMove EXCEPT !.needsExactRoll = TRUE]]
        ELSE IF newPosition = FINAL_PATH_END
        THEN [games |-> [g EXCEPT ![roomId] = moved],
              result |-> IF checkWinCondition(moved, playerId)
                         THEN [noMove EXCEPT !.success = TRUE, !.hasWon = TRUE]
                         ELSE [noMove EXCEPT !.success = TRUE, !.reachedEnd = TRUE]]
        ELSE IF capturesApply(newPosition)
        THEN LET out == checkCaptures(moved, playerId, newPosition)
             IN  [games |-> [g EXCEPT ![roomId] = out.game],
                  result |-> [noMove EXCEPT !.success = TRUE,
                                            !.capturedTokens = out.capturedTokens]]
        ELSE [games |-> [g EXCEPT ![roomId] = moved],
              result |-> [noMove EXCEPT !.success = TRUE]]

\* moveToken returns the result; the store after the call goes with it.
moveToken(g, roomId, playerId, tokenId, steps) ==
  IF roomId \notin DOMAIN g \/ playerId \notin DOMAIN g[roomId].tokens
  THEN [games |-> g, result |-> noMove]
  ELSE
    LET game == g[roomId]
        allTokens == game.tokens[playerId]
    IN
    IF tokenId \notin 1..Len(allTokens) THEN [games |-> g, result |-> noMove]
    ELSE
      LET position == allTokens[tokenId] IN
      IF position = HOME
      THEN IF ~canLeaveHome(game) THEN [games |-> g, result |-> noMove]
           ELSE LET out == checkCaptures([game EXCEPT !.tokens[playerId][tokenId] = 0],
                                         playerId, 0)
                IN  [games |-> [g EXCEPT ![roomId] = out.game],
                     result |-> [noMove EXCEPT !.success = TRUE,
                                               !.capturedTokens = out.capturedTokens]]
      ELSE IF position = FINAL_PATH_END THEN [games |-> g, result |-> noMove]
      ELSE
        LET target == resolveOvershoot(position, position + steps)
            newPosition == target.newPosition
            moved == [game EXCEPT !.tokens[playerId][tokenId] = newPosition]
        IN
        IF target.blocked
        THEN [games |-> g, result |-> [noMove EXCEPT !.needsExactRoll = TRUE]]
        ELSE IF newPosition = FINAL_PATH_END
        THEN [games |-> [g EXCEPT ![roomId] = moved],
              result |-> IF checkWinCondition(moved, playerId)
                         THEN [noMove EXCEPT !.success = TRUE, !.hasWon = TRUE]
                         ELSE [noMove EXCEPT !.success = TRUE, !.reachedEnd = TRUE]]
        ELSE IF capturesApply(newPosition)
        THEN LET out == checkCaptures(moved, playerId, newPosition)
             IN  [games |-> [g EXCEPT ![roomId] = out.game],
                  result |-> [noMove EXCEPT !.success = TRUE,
                                            !.capturedTokens = out.capturedTokens]]
        ELSE [games |-> [g EXCEPT ![roomId] = moved],
              result |-> [noMove EXCEPT !.success = TRUE]]

(***************************************************************************)
(* The turn timer.  setTimeout returns a handle that no pending timeout    *)
(* has; clearTimeout drops the handle from the pending ones.  A pending    *)
(* timeout stays pending until it fires or is cleared, whether or not a    *)
(* session still holds its handle.                                         *)
(***************************************************************************)
clearTimeout(tm, handle) == [h \in DOMAIN tm \ {handle} |-> tm[h]]

freeHandles(tm) == (1..MaxTimers) \ DOMAIN tm

\* setTimeout returns a new Timeout object: it is none of the pending ones and
\* not the one the caller still holds in turnTimer (`held`).
canSetTimeout(tm, held) == freeHandles(tm) \ {held} # {}

newHandle(tm, held) ==
  CHOOSE h \in freeHandles(tm) \ {held} : \A k \in freeHandles(tm) \ {held} : h <= k

setTimeout(tm, handle, gameId) ==
  [h \in DOMAIN tm \cup {handle} |-> IF h = handle THEN gameId ELSE tm[h]]

\* nextTurn without the removal of a session nobody is seated in.
nextTurn_KeepsEmptySession(g, tm, gameId) ==
  IF gameId \notin DOMAIN g THEN [games |-> g, timers |-> tm, threw |-> TRUE]
  ELSE IF Len(g[gameId].players) = 0
  THEN [games |-> g, timers |-> clearTimeout(tm, g[gameId].turnTimer), threw |-> FALSE]
  ELSE LET cleared == clearTimeout(tm, g[gameId].turnTimer)
           handle == newHandle(cleared, g[gameId].turnTimer)
       IN  [games |-> [g EXCEPT ![gameId].currentPlayer = (@ + 1) % Len(g[gameId].players),
                                ![gameId].turnTimer = handle],
            timers |-> setTimeout(cleared, handle, gameId),
            threw |-> FALSE]

\* nextTurn: threw is the 'Game not found' error.
nextTurn(g, tm, gameId) ==
  IF gameId \notin DOMAIN g THEN [games |-> g, timers |-> tm, threw |-> TRUE]
  ELSE IF Len(g[gameId].players) = 0
  THEN [games |-> deleteGame(g, gameId),
        timers |-> clearTimeout(tm, g[gameId].turnTimer),
        threw |-> FALSE]
  ELSE LET cleared == clearTimeout(tm, g[gameId].turnTimer)
           handle == newHandle(cleared, g[gameId].turnTimer)
       IN  [games |-> [g EXCEPT ![gameId].currentPlayer = (@ + 1) % Len(g[gameId].players),
                                ![gameId].turnTimer = handle],
            timers |-> setTimeout(cleared, handle, gameId),
            threw |-> FALSE]

\* Whether nextTurn has a handle for the timer it arms, if it arms one.
hasHandle(g, tm, gameId) ==
  (gameId \in DOMAIN g /\ Len(g[gameId].players) > 0)
    => canSetTimeout(clearTimeout(tm, g[gameId].turnTimer), g[gameId].turnTimer)

indexOfId(players, playerId) ==
  IF \E i \in 1..Len(players) : players[i] = playerId
  THEN CHOOSE i \in 1..Len(players) :
         players[i] = playerId /\ \A j \in 1..(i - 1) : players[j] # playerId
  ELSE 0

\* removePlayer that drops a session as soon as nobody is seated in it.
removePlayer_DropsTheEmptyLobbySession(g, tm, gameId, playerId) ==
  IF gameId \notin DOMAIN g THEN [games |-> g, timers |-> tm]
  ELSE
    LET index == indexOfId(g[gameId].players, playerId)
        game == IF index # 0
                THEN [g[gameId] EXCEPT
                        !.players = RemoveAt(@, index),
                        !.tokens = [p \in DOMAIN @ \ {playerId} |-> @[p]]]
                ELSE g[gameId]
    IN  IF Len(game.players) = 0
        THEN [games |-> deleteGame(g, gameId), timers |-> clearTimeout(tm, game.turnTimer)]
        ELSE [games |-> [g EXCEPT ![gameId] = game], timers |-> tm]

\* removePlayer that takes the player out of the list and leaves the tokens.
removePlayer_LeavesTheTokens(g, tm, gameId, playerId) ==
  IF gameId \notin DOMAIN g THEN [games |-> g, timers |-> tm]
  ELSE
    LET index == indexOfId(g[gameId].players, playerId)
        game == IF index # 0
                THEN [g[gameId] EXCEPT !.players = RemoveAt(@, index)]
                ELSE g[gameId]
    IN  IF Len(game.players) = 0 /\ game.started
        THEN [games |-> deleteGame(g, gameId), timers |-> clearTimeout(tm, game.turnTimer)]
        ELSE [games |-> [g EXCEPT ![gameId] = game], timers |-> tm]

\* removePlayer returns nothing; the store and the pending timeouts after it.
removePlayer(g, tm, gameId, playerId) ==
  IF gameId \notin DOMAIN g THEN [games |-> g, timers |-> tm]
  ELSE
    LET index == indexOfId(g[gameId].players, playerId)
        game == IF index # 0
                THEN [g[gameId] EXCEPT
                        !.players = RemoveAt(@, index),
                        !.tokens = [p \in DOMAIN @ \ {playerId} |-> @[p]]]
                ELSE g[gameId]
    IN  IF Len(game.players) = 0 /\ game.started
        THEN [games |-> deleteGame(g, gameId), timers |-> clearTimeout(tm, game.turnTimer)]
        ELSE [games |-> [g EXCEPT ![gameId] = game], timers |-> tm]

canMakeValidMove(g, roomId, playerId, diceValue) ==
  /\ roomId \in DOMAIN g
  /\ playerId \in DOMAIN g[roomId].tokens
  /\ \E i \in 1..Len(g[roomId].tokens[playerId]) :
       LET position == g[roomId].tokens[playerId][i]
       IN  \/ position = HOME /\ diceValue = 6
           \/ /\ position >= 0
              /\ position < FINAL_PATH_END
              /\ IF position >= FINAL_PATH_START
                 THEN position + diceValue <= FINAL_PATH_END
                 ELSE TRUE

(***************************************************************************)
(* The socket handlers.  Each returns the registry, the store and the      *)
(* pending timeouts it leaves, with what it answered (outcome).  A handler *)
(* that throws stops where it is: what it did before stays done.           *)
(***************************************************************************)
NoRoom == ""

\* Object.keys(socket.rooms).find(room => room !== socket.id).  socket.rooms is
\* socket.io's: where it is an object keyed by room the lookup finds the first room
\* the connection joined; where it is a Set, which has no own keys, or has been
\* emptied before the event is emitted, it finds nothing.  The lookup yields
\* either, as the installed release decides.
roomOfSocket(sr, socketId) ==
  IF sr[socketId] = <<>> THEN {NoRoom} ELSE {NoRoom, Head(sr[socketId])}

After(rm, g, tm, outcome) == [rooms |-> rm, games |-> g, timers |-> tm, outcome |-> outcome]

\* room.players[gameStateData.currentPlayer] is undefined past the end of the list,
\* and reading its id throws.
hasTurnHolder(rm, g, roomId) == g[roomId].currentPlayer < Len(getRoom(rm, roomId).players)

turnHolder(rm, g, roomId) == getRoom(rm, roomId).players[g[roomId].currentPlayer + 1].id

\* (currentPlayer + 1) % room.players.length, the handlers' turn advance.
\* advanceTurn that leaves the turn where it is.
advanceTurn_Stays(rm, g, roomId) == g

advanceTurn(rm, g, roomId) ==
  [g EXCEPT ![roomId].currentPlayer = (@ + 1) % Len(getRoom(rm, roomId).players)]

onMoveAnimationDone(rm, g, tm, socketId, roomId) ==
  IF roomId = NoRoom \/ roomId \notin DOMAIN g \/ ~hasRoom(rm, roomId)
  THEN After(rm, g, tm, "ignored")
  ELSE IF ~hasTurnHolder(rm, g, roomId) THEN After(rm, g, tm, "threw")
  ELSE IF turnHolder(rm, g, roomId) # socketId THEN After(rm, g, tm, "ignored")
  ELSE After(rm, advanceTurn(rm, g, roomId), tm, "done")

\* The handler over a createRoom that overwrites the entry of the id.
onCreateRoom_ReplacesTheRoom(rm, g, tm, roomId) ==
  IF hasRoom(rm, roomId)
  THEN After([rm EXCEPT ![RoomIndex(rm, roomId)] =
                [id |-> roomId, players |-> <<>>, started |-> FALSE, state |-> "lobby"]],
             g, tm, "done")
  ELSE After(createRoom(rm, roomId), g, tm, "done")

onCreateRoom(rm, g, tm, roomId) ==
  IF hasRoom(rm, roomId) THEN After(rm, g, tm, "refused")
  ELSE After(createRoom(rm, roomId), g, tm, "done")

onJoinRoom(rm, g, tm, socketId, roomId) ==
  IF ~hasRoom(rm, roomId) THEN After(rm, g, tm, "redirected")
  ELSE IF getRoom(rm, roomId).state = "finished" THEN After(rm, g, tm, "redirected")
  ELSE IF ~canJoinRoom(rm, roomId) THEN After(rm, g, tm, "ignored")
  ELSE After(joinRoom(rm, socketId, roomId),
             addPlayer(IF roomId \in DOMAIN g THEN g ELSE createGame(g, roomId),
                       roomId, socketId),
             tm, "done")

onPlayerReady(rm, g, tm, socketId, roomId, ready) ==
  LET marked == isPlayerReady(rm, socketId, ready) IN
  IF roomId = NoRoom THEN After(marked, g, tm, "ignored")
  ELSE IF ~canStartGame(marked, roomId) THEN After(marked, g, tm, "waiting")
  ELSE LET turn == nextTurn(g, tm, roomId)
       IN  IF turn.threw THEN After(startGame(marked, roomId), g, tm, "threw")
           ELSE After(startGame(marked, roomId), turn.games, turn.timers, "done")

onRollDice(rm, g, tm, socketId, roomId, value) ==
  IF roomId \notin DOMAIN g \/ ~hasRoom(rm, roomId) THEN After(rm, g, tm, "ignored")
  ELSE IF ~hasTurnHolder(rm, g, roomId) THEN After(rm, g, tm, "threw")
  ELSE IF turnHolder(rm, g, roomId) # socketId THEN After(rm, g, tm, "ignored")
  ELSE After(rm, rollDice(g, roomId, value), tm, "done")

\* The handler of 'moveToken', with the engine's result.  outcome: ignored (an early
\* return), threw, moveInvalid (the isInitialMove check), done (the engine was called).
onMoveToken(rm, g, tm, socketId, roomId, playerId, tokenId, steps, isInitialMove) ==
  IF roomId \notin DOMAIN g \/ ~hasRoom(rm, roomId)
  THEN [rooms |-> rm, games |-> g, timers |-> tm, outcome |-> "ignored", result |-> noMove]
  ELSE IF playerId \notin DOMAIN g[roomId].tokens
  THEN [rooms |-> rm, games |-> g, timers |-> tm, outcome |-> "ignored", result |-> noMove]
  ELSE IF ~hasTurnHolder(rm, g, roomId)
  THEN [rooms |-> rm, games |-> g, timers |-> tm, outcome |-> "threw", result |-> noMove]
  ELSE IF turnHolder(rm, g, roomId) # socketId
  THEN [rooms |-> rm, games |-> g, timers |-> tm, outcome |-> "ignored", result |-> noMove]
  ELSE IF isInitialMove /\ g[roomId].lastDiceRoll # 6
  THEN [rooms |-> rm, games |-> g, timers |-> tm, outcome |-> "moveInvalid", result |-> noMove]
  ELSE
    LET move == moveToken(g, roomId, playerId, tokenId, steps)
        result == move.result
        keepsTurn == IF result.success
                     THEN result.hasWon \/ move.games[roomId].lastDiceRoll = 6
                     ELSE ~result.needsExactRoll
    IN  [rooms |-> rm,
         games |-> IF keepsTurn THEN move.games ELSE advanceTurn(rm, move.games, roomId),
         timers |-> tm, outcome |-> "done", result |-> result]

onSkipTurn(rm, g, tm, socketId, roomId) ==
  IF roomId \notin DOMAIN g \/ ~hasRoom(rm, roomId) THEN After(rm, g, tm, "ignored")
  ELSE IF ~hasTurnHolder(rm, g, roomId) THEN After(rm, g, tm, "threw")
  ELSE IF turnHolder(rm, g, roomId) # socketId THEN After(rm, g, tm, "ignored")
  ELSE After(rm, advanceTurn(rm, g, roomId), tm, "done")

RECURSIVE addPlayers(_, _, _)
addPlayers(g, roomId, players) ==
  IF players = <<>> THEN g
  ELSE addPlayers(addPlayer(g, roomId, Head(players).id), roomId, Tail(players))

\* createGame replaces the session (its turnTimer handle goes with the old one);
\* after addPlayer every player of the room has tokens, so the handler's own
\* token initialisation finds nothing to do.
onStartGame(rm, g, tm, roomId) ==
  IF ~hasRoom(rm, roomId) THEN After(rm, g, tm, "ignored")
  ELSE IF Len(getRoom(rm, roomId).players) = 0 THEN After(rm, g, tm, "ignored")
  ELSE LET seated == addPlayers(createGame(g, roomId), roomId, getRoom(rm, roomId).players)
       IN  After(startGame(rm, roomId), [seated EXCEPT ![roomId].currentPlayer = 0], tm, "done")

onEndTurn(rm, g, tm, socketId, roomId) ==
  IF ~hasRoom(rm, roomId) THEN After(rm, g, tm, "ignored")
  ELSE LET currentPlayerIndex == IndexOfPlayer(getRoom(rm, roomId).players, socketId) - 1
       IN  IF currentPlayerIndex = -1 THEN After(rm, g, tm, "ignored")
           ELSE IF roomId \notin DOMAIN g THEN After(rm, g, tm, "ignored")
           ELSE IF g[roomId].currentPlayer # currentPlayerIndex THEN After(rm, g, tm, "ignored")
           ELSE After(rm,
                      [g EXCEPT ![roomId].currentPlayer =
                         (currentPlayerIndex + 1) % Len(getRoom(rm, roomId).players)],
                      tm, "done")

onDisconnect(rm, g, tm, socketId, roomId) ==
  IF roomId = NoRoom THEN After(rm, g, tm, "ignored")
  ELSE LET left == leaveRoom(rm, socketId)
           removed == removePlayer(g, tm, roomId, socketId)
       IN  IF Len(getRoomPlayers(left, roomId)) = 0
           THEN After(deleteRoom(left, roomId), deleteGame(removed.games, roomId),
                      removed.timers, "deleted")
           ELSE After(left, removed.games, removed.timers, "done")

\* The callback of the timeout `handle`: nextTurn(gameId, io).
onTimeout(rm, g, tm, handle) ==
  LET pending == clearTimeout(tm, handle)
      turn == nextTurn(g, pending, tm[handle])
  IN  IF turn.threw THEN After(rm, g, pending, "threw")
      ELSE After(rm, turn.games, turn.timers, "done")

(***************************************************************************)
(* The actions: one per inbound event, and the timer's firing.             *)
(***************************************************************************)
\* What `last` holds of a handler.  A handler that returns or throws before it
\* has changed anything leaves `last` as it is.
Event(op, socketId, roomId, outcome) ==
  [op |-> op, socket |-> socketId, room |-> roomId, outcome |-> outcome,
   playerId |-> "", tokenId |-> 0, steps |-> 0, from |-> HOME, dice |-> NULL,
   cp |-> 0, result |-> noMove]

Logged(out, event) ==
  IF out.outcome # "done" /\ out.rooms = rooms /\ out.games = games /\ out.timers = timers
  THEN last
  ELSE event

Leaves(out) ==
  /\ rooms' = out.rooms
  /\ games' = out.games
  /\ timers' = out.timers

MoveAnimationDone(s) ==
  /\ s \notin closed
  /\ \E roomId \in roomOfSocket(socketRooms, s) :
       \E out \in {onMoveAnimationDone(rooms, games, timers, s, roomId)} :
         /\ Leaves(out)
         /\ last' = Logged(out, Event("moveAnimationDone", s, roomId, out.outcome))
  /\ UNCHANGED <<socketRooms, closed, movesLeft, joinsLeft>>

CreateRoom(s, roomId) ==
  /\ s \notin closed
  /\ \E out \in {onCreateRoom(rooms, games, timers, roomId)} :
         /\ Leaves(out)
         /\ last' = Logged(out, Event("createRoom", s, roomId, out.outcome))
  /\ UNCHANGED <<socketRooms, closed, movesLeft, joinsLeft>>

JoinRoom(s, roomId) ==
  /\ s \notin closed
  /\ joinsLeft > 0
  /\ \E out \in {onJoinRoom(rooms, games, timers, s, roomId)} :
         /\ Leaves(out)
         /\ socketRooms' =
              IF out.outcome = "done" /\ \A i \in 1..Len(socketRooms[s]) : socketRooms[s][i] # roomId
              THEN [socketRooms EXCEPT ![s] = Append(@, roomId)]
              ELSE socketRooms
         /\ joinsLeft' = IF out.outcome = "done" THEN joinsLeft - 1 ELSE joinsLeft
         /\ last' = Logged(out, Event("joinRoom", s, roomId, out.outcome))
  /\ UNCHANGED <<closed, movesLeft>>

PlayerReady(s, ready) ==
  /\ s \notin closed
  /\ \E roomId \in roomOfSocket(socketRooms, s) :
       /\ hasHandle(games, timers, roomId)
       /\ \E out \in {onPlayerReady(rooms, games, timers, s, roomId, ready)} :
            /\ Leaves(out)
            /\ last' = Logged(out, Event("playerReady", s, roomId, out.outcome))
  /\ UNCHANGED <<socketRooms, closed, movesLeft, joinsLeft>>

RollDice(s, roomId, value) ==
  /\ s \notin closed
  /\ \E out \in {onRollDice(rooms, games, timers, s, roomId, value)} :
         /\ Leaves(out)
         /\ last' = IF out.outcome = "done"
                    THEN [Event("rollDice", s, roomId, "done") EXCEPT !.dice = value]
                    ELSE Logged(out, Event("rollDice", s, roomId, out.outcome))
  /\ UNCHANGED <<socketRooms, closed, movesLeft, joinsLeft>>

MoveToken(s, roomId, playerId, tokenId, steps, isInitialMove) ==
  /\ s \notin closed
  /\ movesLeft > 0
  /\ \E out \in {onMoveToken(rooms, games, timers, s, roomId, playerId, tokenId, steps,
                            isInitialMove)} :
         /\ Leaves(out)
         /\ movesLeft' = IF out.result.success THEN movesLeft - 1 ELSE movesLeft
         /\ last' = IF out.outcome = "done"
                    THEN [Event("moveToken", s, roomId, "done") EXCEPT
                            !.playerId = playerId, !.tokenId = tokenId, !.steps = steps,
                            !.from = IF tokenId \in 1..Len(games[roomId].tokens[playerId])
                                     THEN games[roomId].tokens[playerId][tokenId]
                                     ELSE HOME,
                            !.dice = games[roomId].lastDiceRoll,
                            !.cp = games[roomId].currentPlayer,
                            !.result = out.result]
                    ELSE Logged(out, Event("moveToken", s, roomId, out.outcome))
  /\ UNCHANGED <<socketRooms, closed, joinsLeft>>

SkipTurn(s, roomId) ==
  /\ s \notin closed
  /\ \E out \in {onSkipTurn(rooms, games, timers, s, roomId)} :
         /\ Leaves(out)
         /\ last' = Logged(out, Event("skipTurn", s, roomId, out.outcome))
  /\ UNCHANGED <<socketRooms, closed, movesLeft, joinsLeft>>

StartGame(s, roomId) ==
  /\ s \notin closed
  /\ \E out \in {onStartGame(rooms, games, timers, roomId)} :
         /\ Leaves(out)
         /\ last' = Logged(out, Event("startGame", s, roomId, out.outcome))
  /\ UNCHANGED <<socketRooms, closed, movesLeft, joinsLeft>>

EndTurn(s, roomId) ==
  /\ s \notin closed
  /\ \E out \in {onEndTurn(rooms, games, timers, s, roomId)} :
         /\ Leaves(out)
         /\ last' = Logged(out, Event("endTurn", s, roomId, out.outcome))
  /\ UNCHANGED <<socketRooms, closed, movesLeft, joinsLeft>>

Disconnect(s) ==
  /\ s \notin closed
  /\ \E roomId \in roomOfSocket(socketRooms, s) :
       \E out \in {onDisconnect(rooms, games, timers, s, roomId)} :
         /\ Leaves(out)
         /\ last' = Event("disconnect", s, roomId, out.outcome)
  /\ socketRooms' = [socketRooms EXCEPT ![s] = <<>>]
  /\ closed' = closed \cup {s}
  /\ UNCHANGED <<movesLeft, joinsLeft>>

TimerFires(handle) ==
  /\ handle \in DOMAIN timers
  /\ hasHandle(games, clearTimeout(timers, handle), timers[handle])
  /\ \E out \in {onTimeout(rooms, games, timers, handle)} :
         /\ Leaves(out)
         /\ last' = Logged(out, Event("timeout", "", timers[handle], out.outcome))
  /\ UNCHANGED <<socketRooms, closed, movesLeft, joinsLeft>>

\* new GameManager() creates the room 'default'; new GameState() holds no session.
Init ==
  /\ rooms = createRoom(<<>>, "default")
  /\ games = <<>>
  /\ timers = <<>>
  /\ socketRooms = [s \in Sockets |-> <<>>]
  /\ closed = {}
  /\ movesLeft = MaxMoves
  /\ joinsLeft = MaxJoins
  /\ last = Event("listen", "", NoRoom, "done")

Next ==
  \/ \E s \in Sockets : MoveAnimationDone(s)
  \/ \E s \in Sockets, roomId \in RoomIds : CreateRoom(s, roomId)
  \/ \E s \in Sockets, roomId \in RoomIds : JoinRoom(s, roomId)
  \/ \E s \in Sockets, ready \in BOOLEAN : PlayerReady(s, ready)
  \/ \E s \in Sockets, roomId \in RoomIds, value \in DiceValues : RollDice(s, roomId, value)
  \/ \E s \in Sockets, roomId \in RoomIds, playerId \in Sockets, tokenId \in LobbyTokens,
        steps \in LobbySteps, isInitialMove \in BOOLEAN :
       MoveToken(s, roomId, playerId, tokenId, steps, isInitialMove)
  \/ \E s \in Sockets, roomId \in RoomIds : SkipTurn(s, roomId)
  \/ \E s \in Sockets, roomId \in RoomIds : StartGame(s, roomId)
  \/ \E s \in Sockets, roomId \in RoomIds : EndTurn(s, roomId)
  \/ \E s \in Sockets : Disconnect(s)
  \/ \E handle \in 1..MaxTimers : TimerFires(handle)

Spec == Init /\ [][Next]_vars

(***************************************************************************)
(* The engine's specification: moveToken applied to sessions in mid-game.  *)
(* Two players are seated and the game is started; the session is any the  *)
(* play can have led to, at the moment the current player has rolled.  Of  *)
(* two opposing tokens on one perimeter cell the later comer has captured  *)
(* the other unless the cell is safe, so no session has both.              *)
(***************************************************************************)
FirstTokenAt == {-1, 0, 10, 13, 50, 54, 57}

SecondTokenAt == {-1, 10}

midGameTokens(a, b, c, d) ==
  [p \in {"s1", "s2"} |->
     IF p = "s1" THEN [i \in 1..TOKENS_PER_PLAYER |-> IF i = 1 THEN a ELSE IF i = 2 THEN b ELSE HOME]
     ELSE [i \in 1..TOKENS_PER_PLAYER |-> IF i = 1 THEN c ELSE IF i = 2 THEN d ELSE HOME]]

\* The first player with three tokens on the goal.
endGameTokens(a, c, d) ==
  [midGameTokens(a, FINAL_POSITION, c, d) EXCEPT
     !["s1"] = [i \in 1..TOKENS_PER_PLAYER |-> IF i = 1 THEN a ELSE FINAL_POSITION]]

canShareCell(position) ==
  position < 1 \/ position > PERIMETER_END \/ isSafePosition(position)

InitEngine ==
  \E a, c \in FirstTokenAt, b, d \in SecondTokenAt, value \in DiceValues,
     endGame \in BOOLEAN :
    /\ \A x \in {a, b}, y \in {c, d} : x = y => canShareCell(x)
    /\ endGame => (b = HOME /\ c = HOME /\ d = HOME)
    /\ rooms = startGame(joinRoom(joinRoom(createRoom(<<>>, "default"), "s1", "default"),
                                  "s2", "default"), "default")
    /\ games = [r \in {"default"} |->
                  [initialState EXCEPT !.players = <<"s1", "s2">>,
                                       !.tokens = IF endGame THEN endGameTokens(a, c, d)
                                                  ELSE midGameTokens(a, b, c, d),
                                       !.lastDiceRoll = value,
                                       !.canRollAgain = (value = 6)]]
    /\ timers = <<>>
    /\ socketRooms = [s \in Sockets |-> <<"default">>]
    /\ closed = {}
    /\ movesLeft = 1
    /\ joinsLeft = 0
    /\ last = [Event("rollDice", "s1", "default", "done") EXCEPT !.dice = value]

\* The turn's rolls and passes, one move, and the acknowledgements.
NextEngine ==
  \/ /\ movesLeft > 0
     /\ \E s \in Sockets, roomId \in RoomIds, value \in DiceValues : RollDice(s, roomId, value)
  \/ /\ movesLeft > 0
     /\ \E s \in Sockets, roomId \in RoomIds : SkipTurn(s, roomId)
  \/ \E s \in Sockets, roomId \in RoomIds, playerId \in Sockets, tokenId \in TokenArgs,
        steps \in StepValues, isInitialMove \in BOOLEAN :
       MoveToken(s, roomId, playerId, tokenId, steps, isInitialMove)
  \/ \E s \in Sockets : MoveAnimationDone(s)

SpecEngine == InitEngine /\ [][NextEngine]_vars

(***************************************************************************)
(* The end of a game: the first player has three tokens on the goal and    *)
(* the fourth on the way, it has rolled, and the session has moves left     *)
(* for the play that follows the last token's arrival.                     *)
(***************************************************************************)
LastTokenAt == {50, 54}

InitEndGame ==
  \E a \in LastTokenAt, c \in FirstTokenAt, d \in SecondTokenAt, value \in DiceValues :
    /\ \A y \in {c, d} : a = y => canShareCell(a)
    /\ rooms = startGame(joinRoom(joinRoom(createRoom(<<>>, "default"), "s1", "default"),
                                  "s2", "default"), "default")
    /\ games = [r \in {"default"} |->
                  [initialState EXCEPT !.players = <<"s1", "s2">>,
                                       !.tokens = endGameTokens(a, c, d),
                                       !.lastDiceRoll = value,
                                       !.canRollAgain = (value = 6)]]
    /\ timers = <<>>
    /\ socketRooms = [s \in Sockets |-> <<"default">>]
    /\ closed = {}
    /\ movesLeft = MaxMoves
    /\ joinsLeft = 0
    /\ last = [Event("rollDice", "s1", "default", "done") EXCEPT !.dice = value]

SpecEndGame == InitEndGame /\ [][NextEngine]_vars

(***************************************************************************)
(* The registry on its own: a lobby that three connections have joined,    *)
(* two more connections, and the events that create, fill, start and       *)
(* leave rooms.  Every createRoom and joinRoom is recorded in `last`, also  *)
(* the refused ones.                                                       *)
(***************************************************************************)
LobbySockets == {"s1", "s2", "s3", "s4"}

LobbyRoomIds == {"default", "sala"}

\* Seats the registry specification lets a run hand out after the first three.
MaxLobbyJoins == 2

CreateRoomSeen(s, roomId) ==
  /\ s \notin closed
  /\ \E out \in {onCreateRoom(rooms, games, timers, roomId)} :
         /\ Leaves(out)
         /\ last' = Event("createRoom", s, roomId, out.outcome)
  /\ UNCHANGED <<socketRooms, closed, movesLeft, joinsLeft>>

JoinRoomSeen(s, roomId) ==
  /\ s \notin closed
  /\ joinsLeft > 0
  /\ \E out \in {onJoinRoom(rooms, games, timers, s, roomId)} :
         /\ Leaves(out)
         /\ socketRooms' =
              IF out.outcome = "done" /\ \A i \in 1..Len(socketRooms[s]) : socketRooms[s][i] # roomId
              THEN [socketRooms EXCEPT ![s] = Append(@, roomId)]
              ELSE socketRooms
         /\ joinsLeft' = IF out.outcome = "done" THEN joinsLeft - 1 ELSE joinsLeft
         /\ last' = Event("joinRoom", s, roomId, out.outcome)
  /\ UNCHANGED <<closed, movesLeft>>

InitLobby ==
  /\ rooms = joinRoom(joinRoom(joinRoom(createRoom(<<>>, "default"), "s1", "default"),
                               "s2", "default"), "s3", "default")
  /\ games = addPlayer(addPlayer(addPlayer(createGame(<<>>, "default"), "default", "s1"),
                                 "default", "s2"), "default", "s3")
  /\ timers = <<>>
  /\ socketRooms = [s \in LobbySockets |-> IF s = "s4" THEN <<>> ELSE <<"default">>]
  /\ closed = {}
  /\ movesLeft = 0
  /\ joinsLeft = MaxLobbyJoins
  /\ last = Event("joinRoom", "s3", "default", "done")

NextLobby ==
  \/ \E s \in LobbySockets, roomId \in LobbyRoomIds : CreateRoomSeen(s, roomId)
  \/ \E s \in LobbySockets, roomId \in LobbyRoomIds : JoinRoomSeen(s, roomId)
  \/ \E s \in LobbySockets, roomId \in LobbyRoomIds : StartGame(s, roomId)
  \/ \E s \in LobbySockets : Disconnect(s)

SpecLobby == InitLobby /\ [][NextLobby]_vars

(***************************************************************************)
(* Properties.                                                             *)
(***************************************************************************)
SessionRooms == DOMAIN games

\* The part of a session the turn rules are about.
turnState(game) ==
  [currentPlayer |-> game.currentPlayer, lastDiceRoll |-> game.lastDiceRoll,
   canRollAgain |-> game.canRollAgain, tokens |-> game.tokens, turnTimer |-> game.turnTimer]

\* The socket holds the turn of the room: by the room's player list, which the
\* handlers index, or by the session's own list.
holdsTurn(roomId, socketId) ==
  \/ /\ hasRoom(rooms, roomId)
     /\ hasTurnHolder(rooms, games, roomId)
     /\ turnHolder(rooms, games, roomId) = socketId
  \/ /\ games[roomId].currentPlayer < Len(games[roomId].players)
     /\ games[roomId].players[games[roomId].currentPlayer + 1] = socketId

\* The room's player list and the session's player list name the same sockets in
\* the same order.
seatsAgree(roomId) ==
  /\ hasRoom(rooms, roomId)
  /\ roomId \in DOMAIN games
  /\ [i \in 1..Len(getRoom(rooms, roomId).players) |-> getRoom(rooms, roomId).players[i].id]
       = games[roomId].players

TurnActions == {"playerReady", "rollDice", "moveToken", "endTurn", "skipTurn", "moveAnimationDone"}

\* The step is the engine's answer to a moveToken call on a token the player has.
MovedToken ==
  /\ last'.op = "moveToken"
  /\ last'.outcome = "done"
  /\ last'.room \in DOMAIN games
  /\ last'.room \in DOMAIN games'
  /\ last'.playerId \in DOMAIN games[last'.room].tokens
  /\ last'.tokenId \in 1..TOKENS_PER_PLAYER

tokensBefore == games[last'.room].tokens

tokensAfter == games'[last'.room].tokens

landing == tokensAfter[last'.playerId][last'.tokenId]

\* C1: while the room is in play and the session seats somebody (the same sockets
\* as the room), currentPlayer is an index of the player list.
C1_CurrentPlayerIsSeated ==
  \A r \in SessionRooms :
    (seatsAgree(r) /\ getRoom(rooms, r).started /\ Len(games[r].players) >= 1)
      => games[r].currentPlayer \in 0..(Len(games[r].players) - 1)

\* C2: a turn action (playerReady, rollDice, moveToken, endTurn, skipTurn,
\* moveAnimationDone) of a connection that does not hold the turn leaves
\* currentPlayer, lastDiceRoll, canRollAgain, the tokens and the timer as they were.
C2_OnlyTheTurnHolderActs ==
  [][(/\ last'.op \in TurnActions
      /\ seatsAgree(last'.room)
      /\ ~holdsTurn(last'.room, last'.socket))
       => /\ last'.room \in DOMAIN games'
          /\ turnState(games'[last'.room]) = turnState(games[last'.room])
          /\ timers' = timers]_vars

\* C3: rolling a 6, the move made on it, and the mover's moveAnimationDone after
\* that move all leave currentPlayer as it was (in a room whose seats are those
\* of the session).
C3_SixKeepsTheTurn ==
  [][/\ (last'.op = "rollDice" /\ last'.dice = 6 /\ seatsAgree(last'.room)
           /\ last'.room \in DOMAIN games')
          => games'[last'.room].currentPlayer = games[last'.room].currentPlayer
     /\ (MovedToken /\ last'.result.success /\ last'.dice = 6 /\ seatsAgree(last'.room))
          => games'[last'.room].currentPlayer = games[last'.room].currentPlayer
     /\ (/\ last.op = "moveToken" /\ last.result.success /\ last.dice = 6
         /\ last'.op = "moveAnimationDone" /\ last'.socket = last.socket
         /\ last'.room = last.room /\ last.room \in DOMAIN games'
         /\ seatsAgree(last.room))
          => games'[last.room].currentPlayer = last.cp]_vars

\* The seat after cp, by the session's player list or by the room's.
nextSeats(roomId, cp) ==
  {(cp + 1) % n : n \in {Len(games[roomId].players), Len(getRoom(rooms, roomId).players)} \ {0}}

\* C4: a move made on a roll of 1..5, with the mover's moveAnimationDone, moves
\* currentPlayer on by one seat, modulo the number of seated players (of the
\* session, or of the room where the two lists differ).
C4_OtherRollsPassTheTurn ==
  [][/\ (MovedToken /\ last'.result.success /\ ~last'.result.hasWon
           /\ last'.dice \in 1..5)
          => games'[last'.room].currentPlayer \in nextSeats(last'.room, last'.cp)
     /\ (/\ last.op = "moveToken" /\ last.result.success /\ last.dice \in 1..5
         /\ last'.op = "moveAnimationDone" /\ last'.socket = last.socket
         /\ last'.room = last.room /\ last.room \in DOMAIN games'
         /\ hasRoom(rooms, last.room))
          => games'[last.room].currentPlayer \in nextSeats(last.room, last.cp)]_vars

\* C5: a token at home leaves it only as the token a moveToken call names, when
\* lastDiceRoll is 6, and then stands on 0; on any other roll the call fails and
\* the token stays at -1, whatever steps is.
C5_HomeExitNeedsSix ==
  [][\A r \in DOMAIN games \cap DOMAIN games' :
       \A p \in DOMAIN games[r].tokens \cap DOMAIN games'[r].tokens :
         \A i \in 1..TOKENS_PER_PLAYER :
           /\ (games[r].tokens[p][i] = HOME /\ games'[r].tokens[p][i] # HOME)
                => /\ last'.op = "moveToken"
                   /\ last'.room = r /\ last'.playerId = p /\ last'.tokenId = i
                   /\ games[r].lastDiceRoll = 6
                   /\ games'[r].tokens[p][i] = 0
           /\ (/\ MovedToken
               /\ last'.room = r /\ last'.playerId = p /\ last'.tokenId = i
               /\ last'.from = HOME /\ last'.dice # 6)
                => /\ ~last'.result.success
                   /\ games'[r].tokens = games[r].tokens]_vars

C5_Witness ==
  /\ last.op = "moveToken"
  /\ last.from = HOME
  /\ last.dice = 6
  /\ last.result.success
  /\ last.room \in DOMAIN games
  /\ games[last.room].tokens[last.playerId][last.tokenId] = 0

\* C6: moveToken sends a token other than the moved one back to -1 only if it is
\* another player's, stood on the square the moved token lands on, and that square
\* is not a safe one; the mover's other tokens keep their positions.
C6_OnlyUnsafeOpponentsAreSentHome ==
  [][MovedToken =>
       /\ \A p \in DOMAIN tokensBefore : \A i \in 1..TOKENS_PER_PLAYER :
            (/\ <<p, i>> # <<last'.playerId, last'.tokenId>>
             /\ tokensBefore[p][i] # HOME
             /\ tokensAfter[p][i] = HOME)
              => /\ p # last'.playerId
                 /\ tokensBefore[p][i] = landing
                 /\ landing \notin safePositions
       /\ \A i \in 1..TOKENS_PER_PLAYER :
            i # last'.tokenId
              => tokensAfter[last'.playerId][i] = tokensBefore[last'.playerId][i]]_vars

\* A move onto a safe square where an opposing token stands, and stays.
C6_Witness ==
  /\ last.op = "moveToken"
  /\ last.result.success
  /\ last.room \in DOMAIN games
  /\ \E position \in safePositions :
       /\ games[last.room].tokens[last.playerId][last.tokenId] = position
       /\ \E p \in DOMAIN games[last.room].tokens \ {last.playerId} :
            \E i \in 1..TOKENS_PER_PLAYER : games[last.room].tokens[p][i] = position

captureOf(p, i) == [playerId |-> p, tokenId |-> i]

\* C7: a successful move from the board onto a perimeter square 1..51 that is not
\* safe leaves the moved token there, sends every opposing token of that square
\* to -1, and lists each of them once in capturedTokens, and nothing else.
C7_LandingCapturesEveryOpponent ==
  [][(/\ MovedToken
      /\ last'.result.success
      /\ last'.from >= 0
      /\ last'.from + last'.steps \in 1..PERIMETER_END
      /\ last'.from + last'.steps \notin safePositions)
       => LET target == last'.from + last'.steps
              captured == last'.result.capturedTokens
          IN  /\ landing = target
              /\ \A p \in DOMAIN tokensBefore \ {last'.playerId} :
                   \A i \in 1..TOKENS_PER_PLAYER :
                     IF tokensBefore[p][i] = target
                     THEN /\ tokensAfter[p][i] = HOME
                          /\ Cardinality({k \in 1..Len(captured) :
                                            captured[k] = captureOf(p, i)}) = 1
                     ELSE /\ tokensAfter[p][i] = tokensBefore[p][i]
                          /\ \A k \in 1..Len(captured) : captured[k] # captureOf(p, i)
              /\ \A k \in 1..Len(captured) :
                   /\ captured[k].playerId \in DOMAIN tokensBefore \ {last'.playerId}
                   /\ captured[k].tokenId \in 1..TOKENS_PER_PLAYER]_vars

\* Two opposing tokens captured by one move.
C7_Witness ==
  /\ last.op = "moveToken"
  /\ last.result.success
  /\ Len(last.result.capturedTokens) = 2
  /\ last.room \in DOMAIN games
  /\ \A k \in 1..2 :
       games[last.room].tokens[last.result.capturedTokens[k].playerId]
                              [last.result.capturedTokens[k].tokenId] = HOME

\* C8: no token standing on 52..57 is sent home by a move of another player, and
\* a move that lands on 52..57 reports no captured token.
C8_NoCaptureInTheFinalPath ==
  [][MovedToken =>
       /\ \A p \in DOMAIN tokensBefore \ {last'.playerId} :
            \A i \in 1..TOKENS_PER_PLAYER :
              tokensBefore[p][i] \in FINAL_PATH_START..FINAL_PATH_END
                => tokensAfter[p][i] = tokensBefore[p][i]
       /\ (last'.result.success /\ landing \in FINAL_PATH_START..FINAL_PATH_END)
            => last'.result.capturedTokens = <<>>]_vars

\* A move into the final path onto the position number an opposing token holds.
C8_Witness ==
  /\ last.op = "moveToken"
  /\ last.result.success
  /\ last.room \in DOMAIN games
  /\ \E position \in FINAL_PATH_START..(FINAL_PATH_END - 1) :
       /\ games[last.room].tokens[last.playerId][last.tokenId] = position
       /\ last.from # position
       /\ \E p \in DOMAIN games[last.room].tokens \ {last.playerId} :
            \E i \in 1..TOKENS_PER_PLAYER : games[last.room].tokens[p][i] = position

\* C9: every token position is -1 or in 0..57; a move of 1..6 steps whose target
\* is beyond 57 either bounces to a position in 52..57 or is rejected with
\* needsExactRoll and moves nothing.
C9_PositionsStayOnTheBoard ==
  [][/\ \A r \in DOMAIN games' : \A p \in DOMAIN games'[r].tokens :
          \A i \in 1..TOKENS_PER_PLAYER :
            games'[r].tokens[p][i] \in {HOME} \cup 0..FINAL_PATH_END
     /\ (/\ MovedToken
         /\ last'.steps \in 1..6
         /\ last'.from >= 0
         /\ last'.from + last'.steps > FINAL_PATH_END)
          => \/ /\ last'.result.success
                /\ landing \in FINAL_PATH_START..FINAL_PATH_END
             \/ /\ ~last'.result.success
                /\ last'.result.needsExactRoll
                /\ tokensAfter = tokensBefore]_vars

\* C10: a move of a token on 52..56 whose target is beyond 57 fails with
\* needsExactRoll and leaves every position as it was.
C10_FinalPathNeedsExactRoll ==
  [][(/\ MovedToken
      /\ last'.from \in FINAL_PATH_START..(FINAL_PATH_END - 1)
      /\ last'.from + last'.steps > FINAL_PATH_END)
       => /\ ~last'.result.success
          /\ last'.result.needsExactRoll
          /\ tokensAfter = tokensBefore]_vars

\* The token on 54 asked to move 5.
C10_Witness ==
  /\ last.op = "moveToken"
  /\ last.outcome = "done"
  /\ last.from = 54
  /\ last.steps = 5
  /\ last.result.needsExactRoll
  /\ last.room \in DOMAIN games
  /\ games[last.room].tokens[last.playerId][last.tokenId] = 54


\* C11: a move that puts a token on 57 succeeds; it returns hasWon if all four
\* tokens of the player are then on 57, and reachedEnd without hasWon if not.
\* hasWon is returned only with all four tokens of the player on 57.
allAtGoal(tokens, playerId) ==
  \A i \in 1..TOKENS_PER_PLAYER : tokens[playerId][i] = FINAL_POSITION

C11_WinNeedsFourTokensAtGoal ==
  [][MovedToken =>
       /\ (last'.from # FINAL_POSITION /\ landing = FINAL_POSITION)
            => /\ last'.result.success
               /\ IF allAtGoal(tokensAfter, last'.playerId)
                  THEN last'.result.hasWon
                  ELSE last'.result.reachedEnd /\ ~last'.result.hasWon
       /\ last'.result.hasWon => allAtGoal(tokensAfter, last'.playerId)]_vars

\* The fourth token reaches the goal.
C11_Witness ==
  /\ last.op = "moveToken"
  /\ last.result.success
  /\ last.result.hasWon
  /\ last.from # FINAL_POSITION
  /\ last.room \in DOMAIN games
  /\ allAtGoal(games[last.room].tokens, last.playerId)

\* C12: after a move that returned hasWon the room's state is 'finished'.
C12_WinFinishesTheRoom ==
  (last.op = "moveToken" /\ last.result.hasWon /\ hasRoom(rooms, last.room))
    => getRoom(rooms, last.room).state = "finished"

\* C13: the position of a token of a player who stays seated changes only by
\* growing, as the token a moveToken call moves, or by a reset to -1 as a token
\* the call captures; a token on 57 stays on 57.
C13_PositionsGrowOrAreCaptured ==
  [][\A r \in DOMAIN games \cap DOMAIN games' :
       \A p \in DOMAIN games[r].tokens \cap DOMAIN games'[r].tokens :
         \A i \in 1..TOKENS_PER_PLAYER :
           LET before == games[r].tokens[p][i]
               after == games'[r].tokens[p][i]
           IN  /\ before = FINAL_POSITION => after = FINAL_POSITION
               /\ after # before
                    => /\ last'.op = "moveToken"
                       /\ last'.room = r
                       /\ \/ /\ last'.playerId = p
                             /\ last'.tokenId = i
                             /\ after > before
                          \/ /\ last'.playerId # p
                             /\ after = HOME
                             /\ \E k \in 1..Len(last'.result.capturedTokens) :
                                  last'.result.capturedTokens[k] = captureOf(p, i)]_vars

\* C14: a moveToken call that returns success=false leaves the session as it was:
\* the token positions, lastDiceRoll, canRollAgain and currentPlayer.  For the
\* call a handler makes and for calls that name a room or a player nobody has.
UnknownId == "nobody"

C14_RejectedMoveChangesNothing ==
  [][/\ (/\ last'.op = "moveToken"
         /\ last'.outcome = "done"
         /\ ~last'.result.success
         /\ last'.room \in DOMAIN games \cap DOMAIN games')
          => LET call == moveToken(games, last'.room, last'.playerId, last'.tokenId,
                                   last'.steps)
             IN  /\ ~call.result.success
                 /\ call.games = games
                 /\ games'[last'.room].tokens = games[last'.room].tokens
                 /\ games'[last'.room].lastDiceRoll = games[last'.room].lastDiceRoll
                 /\ games'[last'.room].canRollAgain = games[last'.room].canRollAgain
     /\ (last'.op = "moveToken" /\ last'.outcome = "done")
          => /\ LET call == moveToken(games, UnknownId, last'.playerId, last'.tokenId,
                                      last'.steps)
                IN  ~call.result.success /\ call.games = games
             /\ \A roomId \in DOMAIN games :
                  LET call == moveToken(games, roomId, UnknownId, last'.tokenId, last'.steps)
                  IN  ~call.result.success /\ call.games = games]_vars

\* A token on the goal asked to move, and a token of the final path asked to
\* move past it.
C14_Witness ==
  /\ last.op = "moveToken"
  /\ last.outcome = "done"
  /\ ~last.result.success
  /\ last.tokenId \in 1..TOKENS_PER_PLAYER
  /\ last.from >= FINAL_PATH_START
  /\ last.room \in DOMAIN games
  /\ games[last.room].tokens[last.playerId][last.tokenId] = last.from

\* C15: in a session where no dice has been rolled (lastDiceRoll is null) every
\* token is on -1, and every moveToken call fails and changes nothing.
C15_NoMoveBeforeTheFirstRoll ==
  \A r \in DOMAIN games :
    games[r].lastDiceRoll = NULL
      => /\ \A p \in DOMAIN games[r].tokens : games[r].tokens[p] = homeTokens
         /\ \A p \in DOMAIN games[r].tokens, tokenId \in TokenArgs, steps \in StepValues :
              LET call == moveToken(games, r, p, tokenId, steps)
              IN  ~call.result.success /\ call.games = games

\* A move asked for before the first roll, and refused.
C15_Witness ==
  /\ last.op = "moveToken"
  /\ last.outcome = "done"
  /\ last.dice = NULL
  /\ last.tokenId \in 1..TOKENS_PER_PLAYER
  /\ ~last.result.success
  /\ last.room \in DOMAIN games
  /\ games[last.room].lastDiceRoll = NULL
  /\ games[last.room].tokens[last.playerId] = homeTokens

\* C16: a move of the turn holder rejected with needsExactRoll passes the turn to
\* the next seat, modulo the number of players, and moves no token; a move
\* rejected without needsExactRoll leaves currentPlayer as it was.
C16_ExactRollRejectionPassesTheTurn ==
  [][(/\ last'.op = "moveToken"
      /\ last'.outcome = "done"
      /\ ~last'.result.success
      /\ last'.room \in DOMAIN games \cap DOMAIN games'
      /\ seatsAgree(last'.room))
       => /\ games'[last'.room].tokens = games[last'.room].tokens
          /\ games'[last'.room].currentPlayer =
               IF last'.result.needsExactRoll
               THEN (games[last'.room].currentPlayer + 1) % Len(games[last'.room].players)
               ELSE games[last'.room].currentPlayer]_vars

\* The turn has passed from the first seat to the second on a needsExactRoll.
C16_Witness ==
  /\ last.op = "moveToken"
  /\ last.outcome = "done"
  /\ last.result.needsExactRoll
  /\ last.cp = 0
  /\ last.room \in DOMAIN games
  /\ Len(games[last.room].players) = 2
  /\ games[last.room].currentPlayer = 1

\* The timeouts pending for a room.
pendingFor(tm, roomId) == {h \in DOMAIN tm : tm[h] = roomId}

\* C17: a roll, a successful move, an end-turn or a skip of the turn holder in a
\* playing session cancels the timeouts pending for the room and arms a new one.
C17_ActionsRearmTheTimer ==
  [][(/\ last'.op \in {"rollDice", "moveToken", "endTurn", "skipTurn"}
      /\ last'.outcome = "done"
      /\ last'.op = "moveToken" => last'.result.success
      /\ last'.room \in DOMAIN games \cap DOMAIN games'
      /\ hasRoom(rooms, last'.room)
      /\ getRoom(rooms, last'.room).started)
       => /\ pendingFor(timers, last'.room) \cap pendingFor(timers', last'.room) = {}
          /\ pendingFor(timers', last'.room) = {games'[last'.room].turnTimer}]_vars

\* C18: a playing session that seats somebody always has its turn timer pending,
\* whether playerReady or startGame started it; when the timer fires,
\* currentPlayer moves on by one seat and a new timer is pending.
C18_PlayingSessionHasATimer ==
  [][/\ \A r \in DOMAIN games' :
          (/\ hasRoom(rooms', r)
           /\ getRoom(rooms', r).started
           /\ Len(games'[r].players) >= 1)
            => games'[r].turnTimer \in pendingFor(timers', r)
     /\ (/\ last'.op = "timeout"
         /\ last'.room \in DOMAIN games \cap DOMAIN games'
         /\ Len(games[last'.room].players) >= 1)
          => /\ games'[last'.room].currentPlayer =
                  (games[last'.room].currentPlayer + 1) % Len(games[last'.room].players)
             /\ games'[last'.room].turnTimer \in pendingFor(timers', last'.room)]_vars

\* C19: at most one timeout is pending for a room.
C19_OneTimerPerRoom ==
  \A r \in RoomIds : Cardinality(pendingFor(timers, r)) <= 1

\* C20: every pending timeout is for a room that has a session.
C20_NoTimerWithoutSession ==
  \A h \in DOMAIN timers : timers[h] \in DOMAIN games
\* C21: when the turn timer fires on a session nobody is seated in, the session
\* is removed from the store, no timeout is armed (the pending ones only get
\* fewer, and the handle the session held is not among them), and no session
\* is left whose currentPlayer could have advanced; the rooms are untouched.
C21_TimeoutRemovesTheEmptySession ==
  [][(/\ last'.op = "timeout"
      /\ last'.room \in DOMAIN games
      /\ Len(games[last'.room].players) = 0)
     => (/\ games' = deleteGame(games, last'.room)
         /\ last'.room \notin DOMAIN games'
         /\ DOMAIN timers' \subseteq DOMAIN timers
         /\ Cardinality(DOMAIN timers') < Cardinality(DOMAIN timers)
         /\ games[last'.room].turnTimer \notin DOMAIN timers'
         /\ rooms' = rooms)]_vars

\* A timeout that ran to its end and left no session behind: it found the
\* session empty (with players it keeps the session, without session it throws).
C21_Witness ==
  /\ last.op = "timeout"
  /\ last.outcome = "done"
  /\ last.room \notin DOMAIN games
  /\ hasRoom(rooms, last.room)

\* C22: once the game of a room has started, removePlayer taking the last
\* seated player out deletes the session from the store and cancels its timer.
C22_StartedSessionGoesWithItsLastPlayer ==
  \A r \in DOMAIN games :
    (/\ hasRoom(rooms, r)
     /\ getRoom(rooms, r).started
     /\ Len(games[r].players) = 1)
    => LET after == removePlayer(games, timers, r, games[r].players[1])
       IN  /\ r \notin DOMAIN after.games
           /\ games[r].turnTimer \notin DOMAIN after.timers

\* The step is the disconnect handler, which found the socket's room, taking the
\* only seated player out of the session of a room that has not started.
LastSeatedLeavesTheLobby ==
  /\ last'.op = "disconnect"
  /\ last'.room # NoRoom
  /\ hasRoom(rooms, last'.room)
  /\ ~getRoom(rooms, last'.room).started
  /\ last'.room \in DOMAIN games
  /\ games[last'.room].players = <<last'.socket>>

\* The entries the room keeps when the socket's first entry is taken out.
entriesLeft ==
  Len(getRoom(rooms, last'.room).players)
    - (IF IndexOfPlayer(getRoom(rooms, last'.room).players, last'.socket) # 0 THEN 1 ELSE 0)

C24_AddPlayerIsIdempotent ==
  /\ [](\A r \in DOMAIN games : \A p \in Sockets :
          LET once == addPlayer(games, r, p)
          IN  /\ addPlayer(once, r, p) = once
              /\ isSeated(games[r], p) => once = games)
  /\ [][(/\ last'.op = "joinRoom"
         /\ last'.outcome = "done"
         /\ last'.room \in DOMAIN games
         /\ isSeated(games[last'.room], last'.socket))
        => games' = games]_vars

\* A socket joined again after one of its tokens had left home: the room lists
\* it twice, the session seats it once and the token is where it was.
C24_Witness ==
  /\ last.op = "joinRoom"
  /\ last.outcome = "done"
  /\ last.room \in DOMAIN games
  /\ hasRoom(rooms, last.room)
  /\ Cardinality({i \in 1..Len(getRoom(rooms, last.room).players) :
                    getRoom(rooms, last.room).players[i].id = last.socket}) = 2
  /\ games[last.room].players = <<last.socket>>
  /\ \E i \in 1..TOKENS_PER_PLAYER : games[last.room].tokens[last.socket][i] # HOME

\* The ids seated in a session.
seatedIds(game) == {game.players[i] : i \in 1..Len(game.players)}

\* The step seated a player: an accepted join of a socket the session did not
\* seat, or startGame, which seats the players of the room in a new session.
SeatedBy(roomId, playerId) ==
  /\ last'.outcome = "done"
  /\ last'.room = roomId
  /\ roomId \in DOMAIN games'
  /\ playerId \in seatedIds(games'[roomId])
  /\ \/ /\ last'.op = "joinRoom"
        /\ last'.socket = playerId
        /\ roomId \in DOMAIN games => playerId \notin seatedIds(games[roomId])
     \/ last'.op = "startGame"

\* C25: in every reachable state of a session the ids that own tokens are the
\* seated ids and each seated player owns exactly 4 tokens; right after a
\* player is added, that player's 4 tokens are on -1.
C25_SeatedPlayersOwnFourTokens ==
  /\ [](\A r \in DOMAIN games :
          /\ DOMAIN games[r].tokens = seatedIds(games[r])
          /\ \A p \in seatedIds(games[r]) : Len(games[r].tokens[p]) = TOKENS_PER_PLAYER)
  /\ [][\A r \in RoomIds : \A p \in Sockets :
          SeatedBy(r, p) => games'[r].tokens[p] = [i \in 1..TOKENS_PER_PLAYER |-> HOME]]_vars

\* A second player has just been seated, with four tokens at home, next to a
\* player who has a token on the board.
C25_Witness ==
  /\ last.op = "joinRoom"
  /\ last.outcome = "done"
  /\ last.room \in DOMAIN games
  /\ Len(games[last.room].players) = 2
  /\ DOMAIN games[last.room].tokens = {games[last.room].players[1], last.socket}
  /\ games[last.room].players[2] = last.socket
  /\ \A i \in 1..TOKENS_PER_PLAYER : games[last.room].tokens[last.socket][i] = HOME
  /\ \E i \in 1..TOKENS_PER_PLAYER :
       games[last.room].tokens[games[last.room].players[1]][i] # HOME

\* The faces of the die.
DieFaces == 1..6

\* moveToken with steps = d, called on the state where the player has rolled d,
\* succeeds for the token.
wouldMove(roomId, playerId, tokenId, d) ==
  moveToken(rollDice(games, roomId, d), roomId, playerId, tokenId, d).result.success

\* C26: for every face d of the die, canMakeValidMove(session, playerId, d) is
\* true if and only if the player has a token for which moveToken with
\* steps = d succeeds in the state where lastDiceRoll = d.
C26_CanMoveIffSomeMoveSucceeds ==
  \A r \in DOMAIN games : \A p \in DOMAIN games[r].tokens : \A d \in DieFaces :
    canMakeValidMove(games, r, p, d)
      <=> \E t \in 1..Len(games[r].tokens[p]) : wouldMove(r, p, t, d)

\* C27: rollDice on an existing session yields a value v in 1..6, sets
\* lastDiceRoll = v and canRollAgain = (v = 6) and changes nothing else of the
\* session (currentPlayer and the tokens stay); in every reachable state
\* canRollAgain is true exactly when lastDiceRoll is 6.
C27_RollSetsTheDiceOnly ==
  /\ [](/\ \A u \in RandomTwelfths : dieValue(u) \in 1..6
        /\ DiceValues \subseteq {dieValue(u) : u \in RandomTwelfths}
        /\ \A r \in DOMAIN games : games[r].canRollAgain <=> games[r].lastDiceRoll = 6)
  /\ [][(last'.op = "rollDice" /\ last'.outcome = "done")
        => (/\ last'.dice \in 1..6
            /\ last'.room \in DOMAIN games
            /\ games' = [games EXCEPT ![last'.room] =
                           [@ EXCEPT !.lastDiceRoll = last'.dice,
                                     !.canRollAgain = (last'.dice = 6)]]
            /\ rooms' = rooms
            /\ timers' = timers)]_vars

\* A roll of 3 came after a roll of 6 had taken a token out of home: the flag
\* is down again, the token on the board and the turn where they were.
C27_Witness ==
  /\ last.op = "rollDice"
  /\ last.outcome = "done"
  /\ last.dice = 3
  /\ last.room \in DOMAIN games
  /\ games[last.room].lastDiceRoll = 3
  /\ ~games[last.room].canRollAgain
  /\ last.socket \in DOMAIN games[last.room].tokens
  /\ \E i \in 1..TOKENS_PER_PLAYER : games[last.room].tokens[last.socket][i] # HOME

\* C28: createRoom for an id that has a room is refused (the error is reported)
\* and leaves the room as it is, players, started flag and state, and with it
\* the sessions and the timers.
C28_ExistingRoomIsNotCreatedAgain ==
  [][(last'.op = "createRoom" /\ hasRoom(rooms, last'.room))
     => (/\ last'.outcome = "refused"
         /\ rooms' = rooms
         /\ games' = games
         /\ timers' = timers)]_vars

\* createRoom was refused for a started room that has players.
C28_Witness ==
  /\ last.op = "createRoom"
  /\ last.outcome = "refused"
  /\ hasRoom(rooms, last.room)
  /\ getRoom(rooms, last.room).started
  /\ getRoom(rooms, last.room).state = "playing"
  /\ Len(getRoom(rooms, last.room).players) >= 2

\* C29: creating a session for a room id that already has one is refused
\* without side effects: the players, the tokens, currentPlayer, lastDiceRoll
\* and the timer handle of the existing session are unchanged.  Stated of the
\* startGame handler, which calls createGame, for rooms whose list and session
\* agree.
C29_ExistingSessionIsNotCreatedAgain ==
  [][(/\ last'.op = "startGame"
      /\ last'.room \in DOMAIN games
      /\ seatsAgree(last'.room))
     => (/\ last'.room \in DOMAIN games'
         /\ turnState(games'[last'.room]) = turnState(games[last'.room])
         /\ games'[last'.room].players = games[last'.room].players)]_vars

\* C30: in every reachable state a room has at most 4 players and no two of
\* them have the same color; a joinRoom on a room that has 4 players, or on an
\* id that has no room, seats nobody and changes neither the rooms nor the
\* sessions (their players and tokens), the timers or the connection's rooms.
C30_RoomsHoldFourDistinctColors ==
  /\ [](\A k \in 1..Len(rooms) :
          /\ Len(rooms[k].players) <= maxPlayers
          /\ \A i, j \in 1..Len(rooms[k].players) :
               rooms[k].players[i].color = rooms[k].players[j].color => i = j)
  /\ [][(/\ last'.op = "joinRoom"
         /\ \/ ~hasRoom(rooms, last'.room)
            \/ Len(getRoomPlayers(rooms, last'.room)) >= maxPlayers)
        => (/\ last'.outcome # "done"
            /\ rooms' = rooms
            /\ games' = games
            /\ timers' = timers
            /\ socketRooms' = socketRooms)]_vars

\* A join was turned down by a room that seats four different connections.
C30_Witness ==
  /\ last.op = "joinRoom"
  /\ last.outcome = "ignored"
  /\ hasRoom(rooms, last.room)
  /\ Len(getRoom(rooms, last.room).players) = maxPlayers
  /\ Cardinality({getRoom(rooms, last.room).players[i].id : i \in 1..maxPlayers}) = maxPlayers
  /\ Cardinality({getRoom(rooms, last.room).players[i].color : i \in 1..maxPlayers}) = maxPlayers

\* The sessions of the rooms other than roomId.
otherSessions(g, roomId) == [r \in DOMAIN g \ {roomId} |-> g[r]]

\* The pending timeouts of the rooms other than roomId.
otherTimers(tm, roomId) == [h \in {k \in DOMAIN tm : tm[k] # roomId} |-> tm[h]]

\* The store after each engine operation addressed to roomId: createGame,
\* addPlayer, rollDice, moveToken on a roll of 6, removePlayer and deleteGame.
storesAfter(roomId) ==
  {createGame(games, roomId), deleteGame(games, roomId)}
    \cup {addPlayer(games, roomId, p) : p \in LobbySockets}
    \cup {rollDice(games, roomId, v) : v \in DiceValues}
    \cup {moveToken(rollDice(games, roomId, 6), roomId, p, t, 6).games :
            p \in LobbySockets, t \in TokenArgs}
    \cup {removePlayer(games, timers, roomId, p).games : p \in LobbySockets}
    \cup {nextTurn(games, timers, roomId).games}

\* C31: an engine operation addressed to room R (createGame, addPlayer,
\* rollDice, moveToken, nextTurn, also for an R without session, removePlayer,
\* deleteGame) leaves the session of every other room, and its pending
\* timeouts, as they were; so does every handler that runs for R.
C31_SessionsAreIsolated ==
  /\ [](\A roomId \in LobbyRoomIds :
          /\ \A after \in storesAfter(roomId) :
               otherSessions(after, roomId) = otherSessions(games, roomId)
          /\ otherTimers(nextTurn(games, timers, roomId).timers, roomId)
               = otherTimers(timers, roomId)
          /\ otherTimers(removePlayer(games, timers, roomId, "s1").timers, roomId)
               = otherTimers(timers, roomId)
          /\ roomId \notin DOMAIN games
               => /\ nextTurn(games, timers, roomId).threw
                  /\ nextTurn(games, timers, roomId).games = games)
  /\ [][otherSessions(games', last'.room) = otherSessions(games, last'.room)]_vars

\* Two rooms have sessions with seated players, and the last handler has
\* started the game of one of them.
C31_Witness ==
  /\ last.op = "startGame"
  /\ last.outcome = "done"
  /\ DOMAIN games = LobbyRoomIds
  /\ \A r \in LobbyRoomIds : Len(games[r].players) >= 1

\* The ids of a room's player list, in order.
roomIds(roomId) ==
  [i \in 1..Len(getRoom(rooms, roomId).players) |-> getRoom(rooms, roomId).players[i].id]

\* C32: whenever a room and its session both exist, the room's player list and
\* the session's player list hold the same ids in the same order, each id at
\* most once.
C32_RoomAndSessionSeatTheSame ==
  \A r \in DOMAIN games :
    hasRoom(rooms, r)
      => /\ roomIds(r) = games[r].players
         /\ \A i, j \in 1..Len(roomIds(r)) : roomIds(r)[i] = roomIds(r)[j] => i = j

\* C33: a moveToken event changes the position of a token only if the token
\* belongs to the connection that sent it: every move the engine makes is of a
\* token of the acting connection.  Stated of the moves whose steps are the roll.
C33_OnlyOwnTokensAreMoved ==
  [][(MovedToken /\ last'.steps = last'.dice /\ tokensAfter # tokensBefore)
     => last'.playerId = last'.socket]_vars

\* C34: a roll permits at most one successful move: a successful moveToken is
\* never followed by another successful moveToken of the same session without
\* a rollDice in between (every accepted roll is recorded in `last`, and what
\* is not recorded changes nothing).
C34_OneMovePerRoll ==
  [][~(/\ last.op = "moveToken"
       /\ last.result.success
       /\ last'.op = "moveToken"
       /\ last'.result.success
       /\ last'.room = last.room
       /\ movesLeft' < movesLeft)]_vars

\* C35: every successful move of a token that is not at home advances it by
\* lastDiceRoll, a value in 1..6: the steps applied are the roll, whatever the
\* client sent.
C35_StepsAreTheRoll ==
  [][(MovedToken /\ last'.result.success /\ last'.from # HOME)
     => (/\ last'.dice \in 1..6
         /\ landing = last'.from + last'.dice)]_vars

\* C36: a successful exit from home puts the token on 0, returns an empty
\* capturedTokens list and leaves every opposing token where it is, also the
\* opposing tokens that stand on 0.
C36_HomeExitCapturesNothing ==
  [][(MovedToken /\ last'.result.success /\ last'.from = HOME)
     => (/\ landing = 0
         /\ last'.result.capturedTokens = <<>>
         /\ \A p \in DOMAIN tokensBefore \ {last'.playerId} :
              tokensAfter[p] = tokensBefore[p])]_vars

\* A token has left home for 0, where an opposing token stands.
C36_Witness ==
  /\ last.op = "moveToken"
  /\ last.result.success
  /\ last.from = HOME
  /\ last.room \in DOMAIN games
  /\ games[last.room].tokens[last.playerId][last.tokenId] = 0
  /\ \E p \in DOMAIN games[last.room].tokens \ {last.playerId} :
       \E i \in 1..TOKENS_PER_PLAYER : games[last.room].tokens[p][i] = 0

\* The ids of the room's player list after the step, in its order.
roomIdsAfter(roomId) ==
  [i \in 1..Len(getRoom(rooms', roomId).players) |-> getRoom(rooms', roomId).players[i].id]

\* C37: when a game starts, through startGame or through the start that
\* playerReady makes, the first turn belongs to the first seated player:
\* currentPlayer is 0 once the room is in play, for one to four players.
C37_FirstTurnIsTheFirstSeat ==
  [][(/\ last'.op \in {"startGame", "playerReady"}
      /\ last'.outcome = "done"
      /\ hasRoom(rooms, last'.room)
      /\ ~getRoom(rooms, last'.room).started
      /\ last'.room \in DOMAIN games => games[last'.room].currentPlayer = 0
      /\ last'.room \in DOMAIN games'
      /\ roomIdsAfter(last'.room) = games'[last'.room].players
      /\ getRoom(rooms', last'.room).started)
     => games'[last'.room].currentPlayer = 0]_vars

\* Some player of the session has all four tokens on the goal: a move has
\* returned hasWon for it.
hasWinner(roomId) ==
  \E p \in DOMAIN games[roomId].tokens : allAtGoal(games[roomId].tokens, p)

\* C38: after a player's move has returned hasWon, no token position of the
\* session changes any more, and no other player obtains hasWon: a session has
\* at most one winner.  (Stated for the moves a player makes right after its
\* roll, on its own tokens, by the number rolled.)
C38_NothingMovesAfterAWin ==
  [][(/\ MovedToken
      /\ hasWinner(last'.room)
      /\ seatsAgree(last'.room)
      /\ last.op = "rollDice"
      /\ last.socket = last'.socket
      /\ last'.playerId = last'.socket
      /\ last'.steps = last'.dice)
     => (/\ tokensAfter = tokensBefore
         /\ ~last'.result.hasWon)]_vars

\* C39: removing a player who is not the current player (disconnect,
\* removePlayer) does not change which player holds the turn: the player at
\* index currentPlayer is the same before and after the removal.
C39_RemovalKeepsTheTurnHolder ==
  [][(/\ last'.op = "disconnect"
      /\ last'.outcome = "done"
      /\ seatsAgree(last'.room)
      /\ isSeated(games[last'.room], last'.socket)
      /\ games[last'.room].currentPlayer < Len(games[last'.room].players)
      /\ games[last'.room].players[games[last'.room].currentPlayer + 1] # last'.socket)
     => (/\ last'.room \in DOMAIN games'
         /\ games'[last'.room].currentPlayer < Len(games'[last'.room].players)
         /\ games'[last'.room].players[games'[last'.room].currentPlayer + 1]
              = games[last'.room].players[games[last'.room].currentPlayer + 1])]_vars

\* The token i of player p is listed in the capturedTokens of the step's move.
listedCaptured(p, i) ==
  \E k \in 1..Len(last'.result.capturedTokens) :
    last'.result.capturedTokens[k] = captureOf(p, i)

\* C40: a successful moveToken changes the addressed token and the captured
\* opposing tokens, and nothing else: the mover's other three tokens and every
\* opposing token that is not captured keep their positions, every player keeps
\* its four tokens, and lastDiceRoll, canRollAgain and the player list are as
\* before.
C40_MoveChangesOnlyItsTokens ==
  [][(MovedToken /\ last'.result.success)
     => (/\ DOMAIN tokensAfter = DOMAIN tokensBefore
         /\ \A p \in DOMAIN tokensBefore :
              /\ Len(tokensAfter[p]) = Len(tokensBefore[p])
              /\ \A i \in 1..Len(tokensBefore[p]) :
                   (<<p, i>> # <<last'.playerId, last'.tokenId>>
                    /\ tokensAfter[p][i] # tokensBefore[p][i])
                     => (/\ p # last'.playerId
                         /\ listedCaptured(p, i)
                         /\ tokensAfter[p][i] = HOME)
         /\ games'[last'.room].lastDiceRoll = games[last'.room].lastDiceRoll
         /\ games'[last'.room].canRollAgain = games[last'.room].canRollAgain
         /\ games'[last'.room].players = games[last'.room].players)]_vars

\* A move has captured an opposing token while another opposing token stands
\* on the board and stays there.
C40_Witness ==
  /\ last.op = "moveToken"
  /\ last.result.success
  /\ Len(last.result.capturedTokens) >= 1
  /\ last.room \in DOMAIN games
  /\ \E p \in DOMAIN games[last.room].tokens \ {last.playerId} :
       \E i, j \in 1..TOKENS_PER_PLAYER :
         /\ i # j
         /\ games[last.room].tokens[p][i] = HOME
         /\ games[last.room].tokens[p][j] >= 0
         /\ \E k \in 1..Len(last.result.capturedTokens) :
              last.result.capturedTokens[k] = captureOf(p, i)
         /\ \A k \in 1..Len(last.result.capturedTokens) :
              last.result.capturedTokens[k] # captureOf(p, j)

====
